---- MODULE Spec2Model ----
(***************************************************************************)
(* Model of the escrow ledger contracts (Escrow.sol, EscrowFactory) and    *)
(* of the off-chain settlement agent (AgentService, BlockchainService,     *)
(* ValidationService, ConditionService).                                   *)
(*                                                                         *)
(* Units.  Ether values are counted in units of 0.0005 ETH, so that the    *)
(* creation fee (0.0005 ETH) is 1 and the settlement fee (0.001 ETH) is 2. *)
(* Time is counted in minutes.                                             *)
(***************************************************************************)
EXTENDS Integers, Sequences, FiniteSets, TLC

\* ---------------------------------------------------------------- bounds
MaxAmount == 4        \* largest declared amount / attached value enumerated
InitialFunds == 8     \* ether each user account starts with
MaxTime == 2          \* ledger Spec: the clock runs from 1 to MaxTime

\* ------------------------------------------------------- program constants
Pending == 0
Escrowed == 1
Settled == 2
Disputed == 3
x402payFeeAmount == 2         \* parseEther("0.001")
InitialCreationFee == 1       \* parseEther("0.0005")
MaxFactoryConditionType == 2  \* require(_conditionType <= 2)

\* ------------------------------------------------------------- identities
Zero == "zero"
Factory == "factory"
Owner == "owner"
Agent == "agent"
FeeAddress == "fee"
Users == {"alice", "bob"}
Accounts == Users \cup {"carol", Agent, FeeAddress, Factory, Owner}
EscrowIds == {1, 2}
LedgerSlots == {1}     \* the Escrow instance the contract Spec follows

VARIABLES
    escrows,          \* EscrowIds -> the Escrow instance deployed there
    wallet,           \* Accounts -> ether balance
    deployedEscrows,  \* the factory's address list
    totalAgreements,  \* the factory's counter
    totalVolume,      \* the factory's volume
    creationFee,      \* the factory's x402payCreationFee
    now,              \* block.timestamp
    last,             \* the last ledger call and its outcome
    cyc,              \* Cycles -> the monitoring cycle's position and notes
    cache,            \* AgentService.agreementCache: EscrowIds -> record
    pending,          \* settle transactions sent and not yet mined
    condIn,           \* ConditionService: the evaluator's arguments
    condOut,          \* ConditionService: the evaluator's result
    gas               \* BlockchainService: gas inputs and the txParams made

ledgerVars == <<escrows, wallet, deployedEscrows, totalAgreements, totalVolume,
                creationFee, now>>
agentVars == <<cyc, cache, pending>>
condVars == <<condIn, condOut, gas>>
vars == <<escrows, wallet, deployedEscrows, totalAgreements, totalVolume,
          creationFee, now, last, cyc, cache, pending, condIn, condOut, gas>>

\* A slot where no Escrow has been deployed.
NoEscrow ==
    [exists |-> FALSE, payer |-> Zero, payee |-> Zero, amount |-> 0,
     conditionType |-> 0, status |-> Pending, createdAt |-> 0, settledAt |-> 0,
     authorizedAgent |-> Zero, feeAddress |-> Zero, feeAmount |-> 0,
     balance |-> 0]

\* ------------------------------------------------------------ Escrow.sol
\* The mutants below change one definition the way a slip in the contract
\* would; they are used only to show that a property depends on the code.
onlyAgent_open(e, sender) == TRUE
onlyAgent(e, sender) == sender = e.authorizedAgent

notSettled_open(e) == TRUE
notSettled(e) == e.status # Settled

notDisputed_open(e) == TRUE
notDisputed(e) == e.status # Disputed

onlyParticipant_open(e, sender) == TRUE
onlyParticipant(e, sender) == sender = e.payer \/ sender = e.payee

\* ReentrancyGuard.nonReentrant: reverts while a guarded call is in progress.
nonReentrant_open(locked) == TRUE
nonReentrant(locked) == ~locked

\* The four modifiers of settle(), in the order they run.
SettleGuards(e, sender, locked) ==
    /\ e.exists
    /\ onlyAgent(e, sender)
    /\ notSettled(e)
    /\ notDisputed(e)
    /\ nonReentrant(locked)

\* The constructor's requires.  (The mutant omits the last one.)
ConstructorOK_noFeeCheck(payer, payee, amount, agent, feeAddr, feeAmt) ==
    /\ payer # Zero
    /\ payee # Zero
    /\ amount > 0
    /\ agent # Zero
    /\ feeAddr # Zero
ConstructorOK(payer, payee, amount, agent, feeAddr, feeAmt) ==
    /\ payer # Zero
    /\ payee # Zero
    /\ amount > 0
    /\ agent # Zero
    /\ feeAddr # Zero
    /\ feeAmt < amount

\* The Agreement the constructor stores.
NewEscrow(payer, payee, amount, conditionType, agent, feeAddr, feeAmt, t) ==
    [exists |-> TRUE, payer |-> payer, payee |-> payee, amount |-> amount,
     conditionType |-> conditionType, status |-> Pending, createdAt |-> t,
     settledAt |-> 0, authorizedAgent |-> agent, feeAddress |-> feeAddr,
     feeAmount |-> feeAmt, balance |-> 0]

\* settle(): uint256 payeeAmount = agreement.amount - x402payFeeAmount
PayeeAmount_nofee(e) == e.amount
PayeeAmount(e) == e.amount - e.feeAmount

\* A low-level call{value: v}: it fails when the sender's balance is short
\* or when the recipient's receive hook reverts.
CallOK_unchecked(balance, v, accepts) == TRUE
CallOK(balance, v, accepts) == balance >= v /\ accepts

\* settle(): the modifiers and the two checked transfers.  (The mutant drops
\* the second require: a failed fee transfer goes unnoticed.)
SettleOK_feeUnchecked(e, sender, payeeAccepts, feeAccepts) ==
    /\ e.exists
    /\ onlyAgent(e, sender)
    /\ notSettled(e)
    /\ notDisputed(e)
    /\ CallOK(e.balance, PayeeAmount(e), payeeAccepts)
SettleOK(e, sender, payeeAccepts, feeAccepts) ==
    /\ e.exists
    /\ onlyAgent(e, sender)
    /\ notSettled(e)
    /\ notDisputed(e)
    /\ CallOK(e.balance, PayeeAmount(e), payeeAccepts)
    /\ CallOK(e.balance - PayeeAmount(e), e.feeAmount, feeAccepts)

\* The disbursement of settle() that failed, if the call got that far:
\* "payee", "fee" or "none".
FailedAt(e, sender, payeeAccepts, feeAccepts) ==
    IF ~(e.exists /\ onlyAgent(e, sender) /\ notSettled(e) /\ notDisputed(e))
    THEN "none"
    ELSE IF ~CallOK(e.balance, PayeeAmount(e), payeeAccepts) THEN "payee"
    ELSE IF ~CallOK(e.balance - PayeeAmount(e), e.feeAmount, feeAccepts)
    THEN "fee" ELSE "none"

\* The Escrow after a settle() that did not revert.  (The mutant forgets
\* agreement.status = Status.Settled.)
AfterSettle_statusKept(e, t) ==
    [e EXCEPT !.settledAt = t,
              !.balance = e.balance - PayeeAmount(e) - e.feeAmount]
AfterSettle(e, t) ==
    [e EXCEPT !.status = Settled, !.settledAt = t,
              !.balance = e.balance - PayeeAmount(e) - e.feeAmount]

\* initiateDispute(): onlyParticipant notSettled.
DisputeOK(e, sender) ==
    /\ e.exists
    /\ onlyParticipant(e, sender)
    /\ notSettled(e)

\* receive(): the two requires.
ReceiveOK_anyValue(e, sender, value) == e.exists /\ sender = e.payer
ReceiveOK(e, sender, value) ==
    /\ e.exists
    /\ sender = e.payer
    /\ value = e.amount

\* receive(): agreement.status = Status.Escrowed, whatever it was.
ReceiveStatus_keep(e) == e.status
ReceiveStatus(e) == Escrowed

AfterReceive(e, value) ==
    [e EXCEPT !.status = ReceiveStatus(e), !.balance = e.balance + value]

\* Crediting an account; the zero address and escrow addresses hold no
\* modelled wallet.
Credit(w, a, v) == IF a \in DOMAIN w THEN [w EXCEPT ![a] = w[a] + v] ELSE w


\* The record of a ledger call: who called what, with which value, whether
\* it reverted, the Escrow before it, the balances of the caller, the payee
\* and the fee address before it, and what it paid out.
Call(op, caller, e, value, ok, toPayee, toFee) ==
    [op |-> op, caller |-> caller, esc |-> e, value |-> value, ok |-> ok,
     pre |-> IF e \in EscrowIds THEN escrows[e] ELSE NoEscrow,
     preWallet |-> [a \in {escrows[x].payee : x \in {e} \cap EscrowIds}
                      \cup {FeeAddress, caller} |->
                        IF a \in DOMAIN wallet THEN wallet[a] ELSE 0],
     toPayee |-> toPayee, toFee |-> toFee,
     argPayee |-> Zero, argAmount |-> 0, argType |-> 0,
     preCreationFee |-> creationFee, preDeployed |-> deployedEscrows,
     preTotal |-> totalAgreements, preVolume |-> totalVolume, at |-> now,
     failedAt |-> "none", nested |-> "none"]

NoCall == 
    [op |-> "none", caller |-> Zero, esc |-> 0, value |-> 0, ok |-> FALSE,
     pre |-> NoEscrow, preWallet |-> [a \in {FeeAddress} |-> 0],
     toPayee |-> 0, toFee |-> 0, argPayee |-> Zero, argAmount |-> 0,
     argType |-> 0, preCreationFee |-> 0, preDeployed |-> <<>>,
     preTotal |-> 0, preVolume |-> 0, at |-> 0,
     failedAt |-> "none", nested |-> "none"]

Amounts == 0 .. MaxAmount
Callers == Users \cup {"carol", Agent, FeeAddress, Factory}
FreeSlots == {e \in LedgerSlots : ~escrows[e].exists}
Deployed == {e \in EscrowIds : escrows[e].exists}

\* ------------------------------------------------------ ledger operations
\* new Escrow(...) sent directly by an account: the constructor.
Deploy(sender, payer, payee, amount, conditionType) ==
    /\ FreeSlots # {}
    /\ LET e == CHOOSE x \in FreeSlots : \A y \in FreeSlots : x <= y
           ok == ConstructorOK(payer, payee, amount, Agent, FeeAddress,
                               x402payFeeAmount)
       IN /\ escrows' = IF ok
                THEN [escrows EXCEPT ![e] =
                        NewEscrow(payer, payee, amount, conditionType, Agent,
                                  FeeAddress, x402payFeeAmount, now)]
                ELSE escrows
          /\ last' = [Call("deploy", sender, e, 0, ok, 0, 0) EXCEPT
                        !.argPayee = payee, !.argAmount = amount,
                        !.argType = conditionType]
    /\ UNCHANGED <<wallet, deployedEscrows, totalAgreements, totalVolume,
                   creationFee, now>>

\* A plain value transfer to the Escrow: receive().
Fund(sender, e, value) ==
    /\ escrows[e].exists
    /\ wallet[sender] >= value
    /\ LET ok == ReceiveOK(escrows[e], sender, value)
       IN /\ escrows' = IF ok
                THEN [escrows EXCEPT ![e] = AfterReceive(escrows[e], value)]
                ELSE escrows
          /\ wallet' = IF ok THEN [wallet EXCEPT ![sender] = @ - value]
                             ELSE wallet
          /\ last' = Call("fund", sender, e, value, ok, 0, 0)
    /\ UNCHANGED <<deployedEscrows, totalAgreements, totalVolume,
                   creationFee, now>>

\* settle() sent by any account; the recipients' receive hooks may revert.
Settle(sender, e, payeeAccepts, feeAccepts) ==
    /\ escrows[e].exists
    /\ LET esc == escrows[e]
           ok == SettleOK(esc, sender, payeeAccepts, feeAccepts)
       IN /\ escrows' = IF ok
                THEN [escrows EXCEPT ![e] = AfterSettle(esc, now)]
                ELSE escrows
          /\ wallet' = IF ok
                THEN Credit(Credit(wallet, esc.payee, PayeeAmount(esc)),
                            esc.feeAddress, esc.feeAmount)
                ELSE wallet
          /\ last' = [Call("settle", sender, e, 0, ok,
                           IF ok THEN PayeeAmount(esc) ELSE 0,
                           IF ok THEN esc.feeAmount ELSE 0) EXCEPT
                        !.failedAt = FailedAt(esc, sender, payeeAccepts,
                                              feeAccepts)]
    /\ UNCHANGED <<deployedEscrows, totalAgreements, totalVolume,
                   creationFee, now>>

\* settle() sent by any account when the receive hook of one recipient
\* (hook: "payee" or "fee") calls back into the Escrow while it is being paid:
\* it calls settle() again (move "settle") or initiateDispute (move
\* "dispute"), or first sends amount to the Escrow and then calls one of the
\* two (moves "fundThenSettle", "fundThenDispute").  The hook swallows a
\* revert of its nested call and accepts the payment.  The outer call has
\* already written status = Settled and holds the guard's lock; receive() and
\* initiateDispute carry no nonReentrant modifier.
SettleReentrant(sender, e, hook, move) ==
    /\ escrows[e].exists
    /\ LET esc == escrows[e]
           hookAddr == IF hook = "payee" THEN esc.payee ELSE esc.feeAddress
           sentBefore == IF hook = "payee" THEN PayeeAmount(esc) ELSE esc.amount
           received == IF hook = "payee" THEN PayeeAmount(esc) ELSE esc.feeAmount
           reached == SettleGuards(esc, sender, FALSE) /\ esc.balance >= sentBefore
           mid == [esc EXCEPT !.status = Settled, !.settledAt = now,
                              !.balance = esc.balance - sentBefore]
           hookFunds == (IF hookAddr \in DOMAIN wallet THEN wallet[hookAddr] ELSE 0)
                            + received
           funded == /\ move \in {"fundThenSettle", "fundThenDispute"}
                     /\ ReceiveOK(mid, hookAddr, mid.amount)
                     /\ hookFunds >= mid.amount
           mid2 == IF funded THEN AfterReceive(mid, mid.amount) ELSE mid
           disputed == /\ move \in {"dispute", "fundThenDispute"}
                       /\ DisputeOK(mid2, hookAddr)
           nestedOK == /\ reached
                       /\ move \in {"settle", "fundThenSettle"}
                       /\ SettleGuards(mid2, hookAddr, TRUE)
                       /\ mid2.balance >= mid2.amount
           nestedOut == IF nestedOK THEN mid2.amount ELSE 0
           left == mid2.balance - nestedOut
           ownFee == IF hook = "payee" THEN esc.feeAmount ELSE 0
           ok == reached /\ left >= ownFee
           times == IF nestedOK THEN 2 ELSE 1
       IN /\ escrows' = IF ok
                THEN [escrows EXCEPT ![e] =
                        [mid2 EXCEPT !.status = IF nestedOK THEN Settled
                                                ELSE IF disputed THEN Disputed
                                                ELSE mid2.status,
                                     !.balance = left - ownFee]]
                ELSE escrows
          /\ wallet' = IF ok
                THEN Credit(Credit(Credit(wallet, hookAddr,
                                          IF funded THEN 0 - mid.amount ELSE 0),
                                   esc.payee, times * PayeeAmount(esc)),
                            esc.feeAddress, times * esc.feeAmount)
                ELSE wallet
          /\ last' = [Call("settle", sender, e, 0, ok,
                           IF ok THEN times * PayeeAmount(esc) ELSE 0,
                           IF ok THEN times * esc.feeAmount ELSE 0) EXCEPT
                        !.nested = IF ~reached THEN "none"
                                   ELSE IF nestedOK /\ ok THEN "disbursed"
                                   ELSE IF disputed THEN "disputed"
                                   ELSE IF funded THEN "rejectedAfterFunding"
                                   ELSE "rejected"]
    /\ UNCHANGED <<deployedEscrows, totalAgreements, totalVolume,
                   creationFee, now>>

\* initiateDispute(reason) sent by any account.
InitiateDispute(sender, e) ==
    /\ escrows[e].exists
    /\ LET ok == DisputeOK(escrows[e], sender)
       IN /\ escrows' = IF ok
                THEN [escrows EXCEPT ![e].status = Disputed]
                ELSE escrows
          /\ last' = Call("initiateDispute", sender, e, 0, ok, 0, 0)
    /\ UNCHANGED <<wallet, deployedEscrows, totalAgreements, totalVolume,
                   creationFee, now>>

\* Ledger time passes.
Tick ==
    /\ now < MaxTime
    /\ now' = now + 1
    /\ UNCHANGED <<escrows, wallet, deployedEscrows, totalAgreements,
                   totalVolume, creationFee, last>>

\* ------------------------------------------------- the Escrow contract
LedgerInit ==
    /\ escrows = [e \in EscrowIds |-> NoEscrow]
    /\ wallet = [a \in Accounts |-> IF a \in Users THEN InitialFunds ELSE 0]
    /\ deployedEscrows = <<>>
    /\ totalAgreements = 0
    /\ totalVolume = 0
    /\ creationFee = InitialCreationFee
    /\ now = 1
    /\ last = NoCall

\* ------------------------------------------------- ConditionService
\* Demo delays of conditionService.js, in minutes.
DateDelay == 2
TaskDelay == 3
PrDelay == 4
ApiDelay == 5
EventDelay == 6
MaxConditionType == 4

\* The auxiliary record (agreementData).  createdAt = 0 stands for a missing
\* or NaN createdAt (falsy in JavaScript); settlementDate is the target time
\* the record carries for a Date condition.
Record(createdAt, settlementDate, met, task, pr, api, ev) ==
    [createdAt |-> createdAt, settlementDate |-> settlementDate,
     conditionMet |-> met, taskCompleted |-> task, prMerged |-> pr,
     apiConditionMet |-> api, customEventTriggered |-> ev,
     githubPrUrl |-> TRUE, apiEndpoint |-> TRUE, customEventName |-> TRUE]

\* agreementData?.createdAt || now
CreatedOrNow(d, t) == IF d.createdAt # 0 THEN d.createdAt ELSE t

checkDateCondition(d, t) ==
    d.conditionMet \/ t > CreatedOrNow(d, t) + DateDelay

checkTaskCondition(d, t) ==
    d.taskCompleted \/ (d.createdAt # 0 /\ t > d.createdAt + TaskDelay)

checkGithubPRCondition(d, t) ==
    d.prMerged \/ (d.githubPrUrl /\ t > CreatedOrNow(d, t) + PrDelay)

checkApiCondition(d, t) ==
    d.apiConditionMet \/ (d.apiEndpoint /\ t > CreatedOrNow(d, t) + ApiDelay)

checkCustomEventCondition(d, t) ==
    d.customEventTriggered
        \/ (d.customEventName /\ t > CreatedOrNow(d, t) + EventDelay)

\* checkCondition: the switch on conditionType; unknown types are not met.
checkCondition(conditionType, d, t) ==
    CASE conditionType = 0 -> checkDateCondition(d, t)
      [] conditionType = 1 -> checkTaskCondition(d, t)
      [] conditionType = 2 -> checkGithubPRCondition(d, t)
      [] conditionType = 3 -> checkApiCondition(d, t)
      [] conditionType = 4 -> checkCustomEventCondition(d, t)
      [] OTHER -> FALSE

\* The evaluator applied to arguments drawn from bounded sets.
CondTimes == 1 .. 9
CondInputs ==
    {[conditionType |-> ct, at |-> t,
      data |-> Record(c, sd, f = 0, f = 1, f = 2, f = 3, f = 4)] :
        ct \in 0 .. (MaxConditionType + 1), t \in CondTimes, c \in {0, 1},
        sd \in {4, 12}, f \in -1 .. MaxConditionType}

\* No transaction parameters have been asked for.
NoGas == [balance |-> 0, gasEstimate |-> 0, gasPrice |-> 0, state |-> "idle",
          error |-> "none", txParams |-> [gasLimit |-> 0, gasPrice |-> 0]]

CondIdle == condIn = [conditionType |-> 0, at |-> 0,
                      data |-> Record(0, 0, FALSE, FALSE, FALSE, FALSE, FALSE)]
            /\ condOut = "idle"
            /\ gas = NoGas

Evaluate ==
    /\ condOut = "none"
    /\ condOut' = IF checkCondition(condIn.conditionType, condIn.data, condIn.at)
                  THEN "met" ELSE "unmet"
    /\ UNCHANGED <<condIn, gas>>

\* ------------------------------------------------- ValidationService
\* minAmount (0.001 ETH) and maxAmount (1000 ETH) in units of 0.0005 ETH;
\* one year in minutes.
minAmount == 2
maxAmount == 2000000
OneYear == 525600

\* validateAmount: not falsy (0n), > 0, within [minAmount, maxAmount].
validateAmount(amount) ==
    /\ amount # 0
    /\ amount > 0
    /\ amount >= minAmount
    /\ amount <= maxAmount

validateConditionType(conditionType) ==
    conditionType >= 0 /\ conditionType <= MaxConditionType

validateStatus(status) == status >= 0 /\ status <= Disputed

\* validateTimestamp: not falsy, not more than a year from the current time.
validateTimestamp(timestamp, t) ==
    /\ timestamp # 0
    /\ timestamp >= t - OneYear
    /\ timestamp <= t + OneYear

\* validateEscrowDetails: TRUE when it returns, FALSE when it throws.
validateEscrowDetails(d, t) ==
    /\ d.payer # Zero
    /\ d.payee # Zero
    /\ validateAmount(d.amount)
    /\ validateConditionType(d.conditionType)
    /\ validateStatus(d.status)
    /\ validateTimestamp(d.createdAt, t)
    /\ (d.settledAt # 0 => validateTimestamp(d.settledAt, t))
    /\ validateAmount(d.balance)
    /\ d.payer # d.payee
    /\ ~(d.status = Settled /\ d.settledAt = 0)

\* ------------------------------------------------- the settlement agent
\* Gas quantities: gas prices and the agent's balance are in gwei.
maxGasPrice == 100          \* parseUnits('100', 'gwei')
minBalance == 1000000       \* parseEther('0.001')
MaxGasLimit == 10000000     \* validateGasParams: 10M gas limit max
GasBufferTenths == 12       \* gasBuffer = 1.2

Cycles == {1, 2}
IdleCycle == [pc |-> "idle", list |-> <<>>, i |-> 0, threw |-> {},
              visited |-> {}, handed |-> {}, subm |-> {},
              sim |-> [e \in EscrowIds |-> "none"],
              err |-> [e \in EscrowIds |-> "none"]]
NoData == [present |-> FALSE, createdAt |-> 0, flag |-> FALSE,
           status |-> "none"]

AgentIdle ==
    /\ cyc = [c \in Cycles |-> IdleCycle]
    /\ cache = [e \in EscrowIds |-> NoData]
    /\ pending = {}

\* The escrow the cycle is working on.
Current(cy) == cy.list[cy.i]

\* monitorAgreements: the for loop goes on to the next address, or the cycle
\* completes after the last one.
Advance(cy) ==
    IF cy.i < Len(cy.list)
    THEN [cy EXCEPT !.pc = "process", !.i = cy.i + 1]
    ELSE [cy EXCEPT !.pc = "idle"]

\* processEscrowContract's catch: the error is logged and the call returns,
\* so the loop goes on.  (The mutant lets the error reach monitorAgreements'
\* catch, which ends the cycle.)
OnProcessError_abort(cy) ==
    [cy EXCEPT !.pc = "idle", !.threw = @ \cup {Current(cy)}]
OnProcessError(cy) == Advance([cy EXCEPT !.threw = @ \cup {Current(cy)}])

\* AgentService.settleEscrow's catch: the error thrown by
\* BlockchainService.settleEscrow is logged ('Failed to settle escrow') and
\* the call returns; err keeps what was thrown for the address.
OnSettleError(cy, why) == Advance([cy EXCEPT !.err[Current(cy)] = why])

\* BlockchainService.settleEscrow's first step: getEscrowDetails throws
\* ("read"), or the status is not Escrowed and an Error is thrown
\* ("notFunded"), or the call goes on ("ok").
RereadOutcome_unchecked(d, t) ==
    IF ~validateEscrowDetails(d, t) THEN "read" ELSE "ok"
RereadOutcome(d, t) ==
    IF ~validateEscrowDetails(d, t) THEN "read"
    ELSE IF d.status # Escrowed THEN "notFunded"
    ELSE "ok"

\* After settle.staticCall(): on failure 'Settlement would fail' is thrown.
\* (The mutant goes on to the submission whatever the dry run said.)
AfterSimulation_ignored(cy, ok) == [cy EXCEPT !.pc = "prepare"]
AfterSimulation(cy, ok) ==
    IF ok THEN [cy EXCEPT !.pc = "prepare"] ELSE OnSettleError(cy, "simulation")

\* The confirmation wait timed out: 'Transaction timeout' is thrown and
\* caught like any other settlement error.  (The mutant lets it end the
\* cycle.)
OnTimeout_fatal(cy) == [cy EXCEPT !.pc = "idle", !.err[Current(cy)] = "timeout"]
OnTimeout(cy) == OnSettleError(cy, "timeout")

\* getSimulatedAgreementData: the cached record, created on first use with
\* all flags false; triggerCondition may have created it without createdAt.
SimulatedData(data, d) ==
    IF data.present THEN data
    ELSE [present |-> TRUE, createdAt |-> d.createdAt, flag |-> FALSE,
          status |-> "none"]

\* The cached record as the evaluator sees it: flag is the flag of the
\* escrow's own condition type.
AsRecord(data, conditionType) ==
    Record(data.createdAt, 0,
           data.flag /\ conditionType = 0, data.flag /\ conditionType = 1,
           data.flag /\ conditionType = 2, data.flag /\ conditionType = 3,
           data.flag /\ conditionType = 4)

\* processEscrowContract after a successful read: "threw" (validation),
\* "skip" (status), "notmet" or "handoff".  (The mutant has no status skips.)
ProcessOutcome_eager(d, data, t) ==
    IF ~validateEscrowDetails(d, t) THEN "threw"
    ELSE IF checkCondition(d.conditionType,
                           AsRecord(SimulatedData(data, d), d.conditionType), t)
         THEN "handoff" ELSE "notmet"
ProcessOutcome(d, data, t) ==
    IF ~validateEscrowDetails(d, t) THEN "threw"
    ELSE IF d.status = Settled \/ d.status = Disputed THEN "skip"
    ELSE IF d.status # Escrowed THEN "skip"
    ELSE IF checkCondition(d.conditionType,
                           AsRecord(SimulatedData(data, d), d.conditionType), t)
         THEN "handoff" ELSE "notmet"

\* The timer fires: monitorAgreements starts and fetches the address list.
StartCycle(c) ==
    /\ cyc[c].pc = "idle"
    /\ cyc' = [cyc EXCEPT ![c] =
            IF Len(deployedEscrows) = 0 THEN IdleCycle
            ELSE [IdleCycle EXCEPT !.pc = "process", !.list = deployedEscrows,
                                   !.i = 1]]
    /\ UNCHANGED <<ledgerVars, last, cache, pending, condVars>>

\* processEscrowContract(list[i]): read, validate, skip, evaluate, hand off.
Process(c) ==
    /\ cyc[c].pc = "process"
    /\ LET cy == [cyc[c] EXCEPT !.visited = @ \cup {Current(cyc[c])}]
           e == Current(cy)
           d == escrows[e]
           out == ProcessOutcome(d, cache[e], now)
       IN /\ cyc' = [cyc EXCEPT ![c] =
                CASE out = "threw" -> OnProcessError(cy)
                  [] out = "handoff" ->
                        [cy EXCEPT !.pc = "reread", !.handed = @ \cup {e}]
                  [] OTHER -> Advance(cy)]
          /\ cache' = IF out \in {"handoff", "notmet"}
                      THEN [cache EXCEPT ![e] = SimulatedData(cache[e], d)]
                      ELSE cache
    /\ UNCHANGED <<ledgerVars, last, pending, condVars>>

\* processEscrowContract(list[i]) when the ledger read itself fails.
ProcessReadFails(c) ==
    /\ cyc[c].pc = "process"
    /\ cyc' = [cyc EXCEPT ![c] =
            OnProcessError([cyc[c] EXCEPT !.visited = @ \cup {Current(cyc[c])}])]
    /\ UNCHANGED <<ledgerVars, last, cache, pending, condVars>>

\* BlockchainService.settleEscrow, first step: re-read and check the status.
Reread(c) ==
    /\ cyc[c].pc = "reread"
    /\ LET d == escrows[Current(cyc[c])]
           out == RereadOutcome(d, now)
       IN cyc' = [cyc EXCEPT ![c] =
            IF out = "ok" THEN [cyc[c] EXCEPT !.pc = "simulate"]
            ELSE OnSettleError(cyc[c], out)]
    /\ UNCHANGED <<ledgerVars, last, cache, pending, condVars>>

\* settle.staticCall(): the dry run against the current ledger state.
Simulate(c, payeeAccepts, feeAccepts) ==
    /\ cyc[c].pc = "simulate"
    /\ LET e == Current(cyc[c])
           ok == SettleOK(escrows[e], Agent, payeeAccepts, feeAccepts)
       IN cyc' = [cyc EXCEPT ![c] =
            AfterSimulation([cyc[c] EXCEPT !.sim[e] = IF ok THEN "ok"
                                                      ELSE "failed"], ok)]
    /\ UNCHANGED <<ledgerVars, last, cache, pending, condVars>>

\* gasLimit = BigInt(Math.floor(Number(gasEstimate) * this.gasBuffer))
GasLimit(gasEstimate) == (gasEstimate * GasBufferTenths) \div 10

\* validateGasParams(gasLimit.toString(), null): the limit arrives as a
\* string, which is truthy even when it reads "0", so both bounds apply.
validateGasParams(gasLimit) == gasLimit > 0 /\ gasLimit <= MaxGasLimit

\* finalGasPrice = gasPrice > maxGasPrice ? maxGasPrice : gasPrice
\* (The mutant attaches the network's price as it is.)
FinalGasPrice_uncapped(gasPrice) == gasPrice
FinalGasPrice(gasPrice) == IF gasPrice > maxGasPrice THEN maxGasPrice ELSE gasPrice

\* txParams = { gasLimit, gasPrice: finalGasPrice }
TxParams(gasEstimate, gasPrice) ==
    [gasLimit |-> GasLimit(gasEstimate), gasPrice |-> FinalGasPrice(gasPrice)]

\* The first check between the dry run and the submission that throws:
\* agent balance, estimateGas, gas bounds, transaction cost.
PrepareError(balance, estimateOK, gasEstimate, gasPrice) ==
    IF balance < minBalance THEN "balance"
    ELSE IF ~estimateOK THEN "estimate"
    ELSE IF ~validateGasParams(GasLimit(gasEstimate)) THEN "gasLimit"
    ELSE IF balance < TxParams(gasEstimate, gasPrice).gasLimit
                        * TxParams(gasEstimate, gasPrice).gasPrice THEN "cost"
    ELSE "none"

\* The checks between the dry run and the submission.
PrepareOK(esc, balance, gasEstimate, gasPrice, accepts) ==
    PrepareError(balance, SettleOK(esc, Agent, accepts, accepts),
                 gasEstimate, gasPrice) = "none"

\* The submitter's gas preparation on its own (estimateGas having answered):
\* either contract.settle(txParams) is sent or an error is thrown.
PrepareTransaction ==
    /\ gas.state = "none"
    /\ LET why == PrepareError(gas.balance, TRUE, gas.gasEstimate, gas.gasPrice)
       IN gas' = IF why = "none"
                 THEN [gas EXCEPT !.state = "sent",
                            !.txParams = TxParams(gas.gasEstimate, gas.gasPrice)]
                 ELSE [gas EXCEPT !.state = "error", !.error = why]
    /\ UNCHANGED <<condIn, condOut>>

\* Balance check, estimateGas, gas bounds, and contract.settle(txParams):
\* the transaction is sent and waits to be mined.
Prepare(c, balance, gasEstimate, gasPrice, accepts) ==
    /\ cyc[c].pc = "prepare"
    /\ LET e == Current(cyc[c])
           ok == PrepareOK(escrows[e], balance, gasEstimate, gasPrice, accepts)
       IN /\ cyc' = [cyc EXCEPT ![c] =
                IF ok THEN [cyc[c] EXCEPT !.pc = "wait", !.subm = @ \cup {e}]
                ELSE OnSettleError(cyc[c], "prepare")]
          /\ pending' = IF ok THEN pending \cup {[esc |-> e, owner |-> c]}
                        ELSE pending
    /\ UNCHANGED <<ledgerVars, last, cache, condVars>>

\* updateAgreementStatus(escrowAddress, 'settled', result)
updateAgreementStatus(data) ==
    IF data.present THEN [data EXCEPT !.status = "settled"] ELSE data

\* A pending settle transaction is mined: settle() runs on the ledger as the
\* agent.  The cycle awaiting it (tx.wait()) gets the receipt or the revert
\* and goes on to the next address.
Mine(tx, payeeAccepts, feeAccepts) ==
    /\ tx \in pending
    /\ Settle(Agent, tx.esc, payeeAccepts, feeAccepts)
    /\ pending' = pending \ {tx}
    /\ cyc' = IF tx.owner \in Cycles
              THEN [cyc EXCEPT ![tx.owner] =
                        IF last'.ok THEN Advance(cyc[tx.owner])
                        ELSE OnSettleError(cyc[tx.owner], "reverted")]
              ELSE cyc
    /\ cache' = IF tx.owner \in Cycles /\ last'.ok
                THEN [cache EXCEPT ![tx.esc] = updateAgreementStatus(@)]
                ELSE cache
    /\ UNCHANGED condVars

\* The 5 minute confirmation timeout wins the race: 'Transaction timeout'
\* is thrown, the transaction stays in flight with nobody awaiting it.
Timeout(c) ==
    /\ cyc[c].pc = "wait"
    /\ LET e == Current(cyc[c])
       IN /\ [esc |-> e, owner |-> c] \in pending
          /\ [esc |-> e, owner |-> 0] \notin pending
          /\ pending' = (pending \ {[esc |-> e, owner |-> c]})
                            \cup {[esc |-> e, owner |-> 0]}
    /\ cyc' = [cyc EXCEPT ![c] = OnTimeout(cyc[c])]
    /\ UNCHANGED <<ledgerVars, last, cache, condVars>>

\* triggerCondition(escrowAddress, conditionType) for the escrow's own type.
TriggerCondition(e) ==
    /\ escrows[e].exists
    /\ ~cache[e].flag
    /\ cache' = [cache EXCEPT ![e] =
            IF @.present THEN [@ EXCEPT !.flag = TRUE]
            ELSE [present |-> TRUE, createdAt |-> 0, flag |-> TRUE,
                  status |-> "none"]]
    /\ UNCHANGED <<ledgerVars, last, cyc, pending, condVars>>

\* The instants the agent's runs are observed at: creation time, a few
\* minutes later, and more than a year later.
ClockValues == {1, 1 + MaxTime + DateDelay, OneYear + 2}
ClockJump ==
    /\ \E t \in ClockValues : t > now /\ now' = t
    /\ UNCHANGED <<escrows, wallet, deployedEscrows, totalAgreements,
                   totalVolume, creationFee, last, agentVars, condVars>>

\* The depositor funds its agreement with exactly amount.
DepositorFunds(e) ==
    /\ Fund(escrows[e].payer, e, escrows[e].amount)
    /\ UNCHANGED <<agentVars, condVars>>

\* The beneficiary files a dispute.
BeneficiaryDisputes(e) ==
    /\ InitiateDispute(escrows[e].payee, e)
    /\ ~(last'.pre.status = Disputed)
    /\ UNCHANGED <<agentVars, condVars>>

Init == LedgerInit /\ AgentIdle /\ CondIdle

DeployAny ==
    /\ \E payer \in Users \cup {Zero}, payee \in Users \cup {Zero},
          amount \in Amounts :
            Deploy("carol", payer, payee, amount, 1)
    /\ UNCHANGED <<agentVars, condVars>>

FundAny ==
    /\ \E sender \in Callers, e \in EscrowIds, value \in Amounts :
            Fund(sender, e, value)
    /\ UNCHANGED <<agentVars, condVars>>

SettleAny ==
    /\ \E sender \in Callers, e \in EscrowIds, pa \in BOOLEAN,
          fa \in BOOLEAN :
            Settle(sender, e, pa, fa)
    /\ UNCHANGED <<agentVars, condVars>>

DisputeAny ==
    /\ \E sender \in Callers, e \in EscrowIds : InitiateDispute(sender, e)
    /\ UNCHANGED <<agentVars, condVars>>

TickAny == Tick /\ UNCHANGED <<agentVars, condVars>>

Next == DeployAny \/ FundAny \/ SettleAny \/ DisputeAny \/ TickAny

Spec == Init /\ [][Next]_vars

\* The Escrow contract when recipients' receive hooks call back into it.  The
\* constructor accepts any non-zero addresses, so the agent's address can also
\* be the depositor and the beneficiary; the agent's account holds ether.
ReentrantParties == {"alice", Agent}

ReentrantInit ==
    /\ escrows = [e \in EscrowIds |-> NoEscrow]
    /\ wallet = [a \in Accounts |->
                    IF a \in Users \cup {Agent} THEN InitialFunds ELSE 0]
    /\ deployedEscrows = <<>>
    /\ totalAgreements = 0
    /\ totalVolume = 0
    /\ creationFee = InitialCreationFee
    /\ now = 1
    /\ last = NoCall
    /\ AgentIdle
    /\ CondIdle

DeployParties ==
    /\ \E payer \in ReentrantParties, payee \in ReentrantParties,
          amount \in Amounts :
            Deploy("carol", payer, payee, amount, 1)
    /\ UNCHANGED <<agentVars, condVars>>

FundParties ==
    /\ \E sender \in ReentrantParties, e \in EscrowIds :
            Fund(sender, e, escrows[e].amount)
    /\ UNCHANGED <<agentVars, condVars>>

SettleReentrantAny ==
    /\ \E sender \in ReentrantParties, e \in EscrowIds,
          hook \in {"payee", "fee"},
          move \in {"settle", "fundThenSettle", "dispute", "fundThenDispute"} :
            SettleReentrant(sender, e, hook, move)
    /\ UNCHANGED <<agentVars, condVars>>

ReentrantNext ==
    DeployParties \/ FundParties \/ SettleReentrantAny \/ DisputeAny \/ TickAny

ReentrantSpec == ReentrantInit /\ [][ReentrantNext]_vars

\* ------------------------------------------------- the EscrowFactory
CreationFees == 0 .. 2
FactoryTypes == {0, 2, 3, 4, 5}
AttachedValues == 0 .. (MaxAmount + 2)

\* Ownable: onlyOwner.
onlyOwner(sender) == sender = Owner

\* createEscrow: the requires before anything is moved.
CreateArgsOK(payee, amount, conditionType, value) ==
    /\ payee # Zero
    /\ amount > 0
    /\ value >= creationFee
    /\ conditionType <= MaxFactoryConditionType
    /\ value - creationFee = amount

\* createEscrow: every require of the call, the constructor's and the new
\* Escrow's receive() included; the call goes through only if all hold.
CreateOK_unchecked(sender, payee, amount, conditionType, value, feeAccepts) == TRUE
CreateOK(sender, payee, amount, conditionType, value, feeAccepts) ==
    /\ CreateArgsOK(payee, amount, conditionType, value)
    /\ (creationFee > 0 => CallOK(value, creationFee, feeAccepts))
    /\ ConstructorOK(sender, payee, amount, Agent, FeeAddress, x402payFeeAmount)
    /\ ReceiveOK(NewEscrow(sender, payee, amount, conditionType, Agent,
                           FeeAddress, x402payFeeAmount, now),
                 Factory, value - creationFee)

\* deployedEscrows.push(escrowAddress) inside a call that goes through (ok)
\* or reverts: a revert undoes the push.
Pushed_kept(ok, list, e) == Append(list, e)
Pushed(ok, list, e) == IF ok THEN Append(list, e) ELSE list

\* createEscrow(_payee, _amount, _conditionType, _conditionHash) payable.
\* The factory forwards the creation fee, constructs the Escrow with the
\* caller as payer, registers it, and then sends amountToEscrow to it with a
\* plain call, so the Escrow's receive() runs with the factory as msg.sender.
\* Any failed require reverts the whole call.
CreateEscrow(sender, payee, amount, conditionType, value, feeAccepts) ==
    /\ wallet[sender] >= value
    /\ \E e \in EscrowIds :
        /\ ~escrows[e].exists
        /\ \A y \in EscrowIds : ~escrows[y].exists => e <= y
        /\ LET amountToEscrow == value - creationFee
               esc0 == NewEscrow(sender, payee, amount, conditionType, Agent,
                                 FeeAddress, x402payFeeAmount, now)
               ok == CreateOK(sender, payee, amount, conditionType, value,
                              feeAccepts)
           IN /\ escrows' = IF ok
                    THEN [escrows EXCEPT ![e] = AfterReceive(esc0, amountToEscrow)]
                    ELSE escrows
              /\ wallet' = IF ok
                    THEN Credit([wallet EXCEPT ![sender] = @ - value],
                                FeeAddress, creationFee)
                    ELSE wallet
              /\ deployedEscrows' = Pushed(ok, deployedEscrows, e)
              /\ totalAgreements' = IF ok THEN totalAgreements + 1
                                          ELSE totalAgreements
              /\ totalVolume' = IF ok THEN totalVolume + amount ELSE totalVolume
              /\ last' = [Call("createEscrow", sender, e, value, ok, 0,
                               IF ok THEN creationFee ELSE 0) EXCEPT
                            !.argPayee = payee, !.argAmount = amount,
                            !.argType = conditionType]
    /\ UNCHANGED <<creationFee, now>>

\* updateX402payCreationFee(_newCreationFee) onlyOwner.
UpdateCreationFee(sender, newFee) ==
    /\ LET ok == onlyOwner(sender) /\ newFee >= 0
       IN /\ creationFee' = IF ok THEN newFee ELSE creationFee
          /\ last' = Call("updateCreationFee", sender, 0, newFee, ok, 0, 0)
    /\ UNCHANGED <<escrows, wallet, deployedEscrows, totalAgreements,
                   totalVolume, now>>

CreateAny ==
    /\ \E sender \in {"alice"}, payee \in Users \cup {Zero},
          amount \in Amounts, conditionType \in FactoryTypes,
          value \in AttachedValues, feeAccepts \in BOOLEAN :
            CreateEscrow(sender, payee, amount, conditionType, value,
                         feeAccepts)
    /\ UNCHANGED <<agentVars, condVars>>

UpdateFeeAny ==
    /\ \E sender \in {Owner, "alice"}, newFee \in CreationFees :
            UpdateCreationFee(sender, newFee)
    /\ UNCHANGED <<agentVars, condVars>>

FactoryNext == CreateAny \/ UpdateFeeAny

FactorySpec == Init /\ [][FactoryNext]_vars

\* The condition evaluator on its own: the arguments are drawn at the start
\* and the evaluator is applied to them.
CondInit ==
    /\ LedgerInit
    /\ AgentIdle
    /\ condIn \in CondInputs
    /\ condOut = "none"
    /\ gas = NoGas

CondNext ==
    Evaluate /\ UNCHANGED <<ledgerVars, last, agentVars>>

CondSpec == CondInit /\ [][CondNext]_vars

\* The agent against a registry that lists the Escrow instances given in
\* list; the instances are Created and are funded by their depositors.
RegisteredEscrow(e) ==
    IF e = 1 THEN NewEscrow("alice", "bob", 3, 0, Agent, FeeAddress,
                            x402payFeeAmount, 1)
    ELSE NewEscrow("alice", "bob", 4, 1, Agent, FeeAddress,
                   x402payFeeAmount, 1)

AgentInitWith(list) ==
    /\ escrows = [e \in EscrowIds |->
            IF \E k \in 1 .. Len(list) : list[k] = e THEN RegisteredEscrow(e)
            ELSE NoEscrow]
    /\ wallet = [a \in Accounts |-> IF a \in Users THEN InitialFunds ELSE 0]
    /\ deployedEscrows = list
    /\ totalAgreements = Len(list)
    /\ totalVolume = 0
    /\ creationFee = InitialCreationFee
    /\ now = 1
    /\ last = NoCall
    /\ AgentIdle
    /\ CondIdle

AgentBalances == {0, minBalance, 2000000000}
GasEstimates == {50000, 9000000}
NetworkGasPrices == {1, 150}

Environment ==
    \/ \E e \in EscrowIds : DepositorFunds(e)
    \/ \E e \in EscrowIds : BeneficiaryDisputes(e)
    \/ \E e \in EscrowIds : TriggerCondition(e)
    \/ ClockJump

AgentSteps(c) ==
    \/ StartCycle(c)
    \/ Process(c)
    \/ ProcessReadFails(c)
    \/ Reread(c)
    \/ \E pa \in BOOLEAN, fa \in BOOLEAN : Simulate(c, pa, fa)
    \/ \E b \in AgentBalances, g \in GasEstimates, p \in NetworkGasPrices,
          a \in BOOLEAN : Prepare(c, b, g, p, a)
    \/ Timeout(c)

MineAny == \E tx \in pending, pa \in BOOLEAN, fa \in BOOLEAN : Mine(tx, pa, fa)

\* The gas preparation on its own: agent balance, gas estimate and network
\* gas price are drawn at the start and the preparation is applied to them.
GasBalanceInputs == {minBalance - 1, minBalance, 6000000, 2000000000}
GasEstimateInputs == {21000, 50000, 8333334, 8333335, 9000000}
GasPriceInputs == {1, 99, 100, 101, 150}
GasInit ==
    /\ LedgerInit
    /\ AgentIdle
    /\ condIn = [conditionType |-> 0, at |-> 0,
                 data |-> Record(0, 0, FALSE, FALSE, FALSE, FALSE, FALSE)]
    /\ condOut = "idle"
    /\ \E b \in GasBalanceInputs, g \in GasEstimateInputs, p \in GasPriceInputs :
            gas = [NoGas EXCEPT !.balance = b, !.gasEstimate = g,
                                !.gasPrice = p, !.state = "none"]
GasNext == PrepareTransaction /\ UNCHANGED <<ledgerVars, last, agentVars>>
GasSpec == GasInit /\ [][GasNext]_vars

\* One monitoring cycle at a time over two registered agreements.
AgentInit == AgentInitWith(<<1, 2>>)
AgentNext == AgentSteps(1) \/ MineAny \/ Environment
AgentSpec == AgentInit /\ [][AgentNext]_vars

\* Two timer firings whose cycles overlap, over one registered agreement.
OverlapInit == AgentInitWith(<<1>>)
OverlapNext == (\E c \in Cycles : AgentSteps(c)) \/ MineAny \/ Environment
OverlapSpec == OverlapInit /\ [][OverlapNext]_vars

\* The agent under fair scheduling: every cycle step and every pending
\* transaction eventually happens, the ledger answers every read, the
\* recipients accept their transfers, the agent's balance and the gas figures
\* pass every check, and no confirmation times out.
FairSteps ==
    \/ StartCycle(1)
    \/ Process(1)
    \/ Reread(1)
    \/ Simulate(1, TRUE, TRUE)
    \/ Prepare(1, 2000000000, 50000, 1, TRUE)
FairMine == \E tx \in pending : Mine(tx, TRUE, TRUE)
FairAgentInit == AgentInitWith(<<1>>)
FairAgentNext == FairSteps \/ FairMine \/ Environment
FairAgentSpec ==
    /\ FairAgentInit
    /\ [][FairAgentNext]_vars
    /\ WF_vars(FairSteps)
    /\ WF_vars(FairMine)

\* ------------------------------------------------------------ properties
\* Status order of the custody state machine: Created, then Funded, then
\* Settled or Disputed.
StatusRank(s) == IF s = Pending THEN 0 ELSE IF s = Escrowed THEN 1 ELSE 2

\* C1: over any sequence of fund, settle() and initiateDispute() calls the
\* status of an agreement only moves forward along
\* Created -> Funded -> {Settled | Disputed}; it never returns to an earlier
\* status and never changes once it is Settled or Disputed.
C1_StatusOnlyMovesForward ==
    [][\A e \in EscrowIds :
        \/ escrows'[e].status = escrows[e].status
        \/ StatusRank(escrows[e].status) < StatusRank(escrows'[e].status)]_vars

\* The Escrow and the balances a call recorded in last could have touched
\* are what they were before the call.
LastCallChangedNothing ==
    /\ escrows[last.esc] = last.pre
    /\ \A a \in DOMAIN last.preWallet :
        a \in DOMAIN wallet => wallet[a] = last.preWallet[a]
    /\ last.toPayee = 0
    /\ last.toFee = 0

\* C2: settle() on an agreement that is already Settled fails for every
\* caller, the agent included, and moves no funds.
C2_SettleOnSettledFails ==
    (last.op = "settle" /\ last.pre.status = Settled)
        => (~last.ok /\ LastCallChangedNothing)

\* C2 witness: the agent called settle() on a Settled agreement that still
\* held enough ether for a second disbursement.
C2_Witness ==
    /\ last.op = "settle"
    /\ last.pre.status = Settled
    /\ last.caller = Agent
    /\ last.pre.balance >= last.pre.amount

\* C3: a successful settle() sends amount - protocolFee to the beneficiary
\* and protocolFee to the fee address, which together are exactly amount.
C3_SettleConservesAmount ==
    (last.op = "settle" /\ last.ok) =>
        /\ last.toPayee = last.pre.amount - last.pre.feeAmount
        /\ last.toFee = last.pre.feeAmount
        /\ last.toPayee + last.toFee = last.pre.amount
        /\ escrows[last.esc].balance = last.pre.balance - last.pre.amount
        /\ wallet[last.pre.payee] =
              last.preWallet[last.pre.payee] + last.pre.amount - last.pre.feeAmount
        /\ wallet[FeeAddress] = last.preWallet[FeeAddress] + last.pre.feeAmount

\* C3 witness: a settle() succeeded.
C3_Witness == last.op = "settle" /\ last.ok /\ last.toPayee > 0

\* C4: settle() called by anyone but the designated agent fails in every
\* status and leaves status, settledAt and all balances unchanged.
C4_OnlyAgentSettles ==
    (last.op = "settle" /\ last.caller # last.pre.authorizedAgent)
        => (~last.ok /\ LastCallChangedNothing)

\* C4 witness: the depositor called settle() on a funded agreement.
C4_Witness ==
    /\ last.op = "settle"
    /\ last.caller = last.pre.payer
    /\ last.pre.status = Escrowed
    /\ last.pre.balance >= last.pre.amount

\* C5: createAgreement with a non-zero beneficiary, amount > protocolFee, a
\* valid conditionType and attached value = amount + creationFee succeeds:
\* the creation fee reaches the fee address and a new instance is registered
\* whose depositor is the caller, whose status is Funded and whose balance is
\* amount.
C5_ValidCreateSucceeds ==
    (/\ last.op = "createEscrow"
     /\ last.argPayee # Zero
     /\ last.argAmount > x402payFeeAmount
     /\ last.argType <= MaxFactoryConditionType
     /\ last.value = last.argAmount + last.preCreationFee)
    => /\ last.ok
       /\ escrows[last.esc].exists
       /\ escrows[last.esc].payer = last.caller
       /\ escrows[last.esc].status = Escrowed
       /\ escrows[last.esc].balance = last.argAmount
       /\ deployedEscrows = Append(last.preDeployed, last.esc)
       /\ wallet[FeeAddress] = last.preWallet[FeeAddress] + last.preCreationFee

\* C10: settle() on an agreement that is still Created fails: status stays
\* Created, settledAt stays zero and no funds move.
C10_SettleOnCreatedFails ==
    (last.op = "settle" /\ last.pre.status = Pending)
        => /\ ~last.ok
           /\ escrows[last.esc].status = Pending
           /\ escrows[last.esc].settledAt = 0
           /\ LastCallChangedNothing

\* C10 witness: the agent called settle() on a Created agreement.
C10_Witness ==
    /\ last.op = "settle"
    /\ last.pre.exists
    /\ last.pre.status = Pending
    /\ last.caller = Agent


\* The reference decision of the specification: a Date condition holds from
\* the target time on (or once its signal is recorded), the others exactly
\* when their flag is set.
ReferenceDecision(conditionType, d, t) ==
    CASE conditionType = 0 -> d.conditionMet \/ t >= d.settlementDate
      [] conditionType = 1 -> d.taskCompleted
      [] conditionType = 2 -> d.prMerged
      [] conditionType = 3 -> d.apiConditionMet
      [] conditionType = 4 -> d.customEventTriggered
      [] OTHER -> FALSE

ConditionHolds(e) ==
    checkCondition(escrows[e].conditionType,
                   AsRecord(SimulatedData(cache[e], escrows[e]),
                            escrows[e].conditionType), now)
Eligible(e) ==
    /\ escrows[e].exists
    /\ escrows[e].status = Escrowed
    /\ ConditionHolds(e)
C6_EligibleEventuallySettled ==
    \A e \in EscrowIds :
        Eligible(e) ~> (escrows[e].status = Settled \/ escrows[e].status = Disputed)

\* C7: two overlapping monitoring cycles never both submit a settle
\* transaction for the same agreement: the second one's re-read stops it.
InProgress(c) == cyc[c].pc # "idle"
C7_OverlappingCyclesSubmitOnce ==
    \A c1 \in Cycles, c2 \in Cycles :
        (c1 # c2 /\ InProgress(c1) /\ InProgress(c2))
            => cyc[c1].subm \cap cyc[c2].subm = {}

\* C8: a cycle in which processing some agreement threw still visits every
\* agreement of the deployed list before it ends.
Listed(cy) == {cy.list[k] : k \in 1 .. Len(cy.list)}
C8_ThrowDoesNotAbortCycle ==
    \A c \in Cycles :
        (cyc[c].pc = "idle" /\ cyc[c].threw # {})
            => cyc[c].visited = Listed(cyc[c])
\* A finished cycle in which agreement 1 threw and agreement 2 was handed to
\* settlement, submitted and settled.
C8_Witness ==
    /\ cyc[1].pc = "idle"
    /\ 1 \in cyc[1].threw
    /\ 2 \in cyc[1].handed
    /\ 2 \in cyc[1].subm
    /\ escrows[2].status = Settled

\* C11: settle() on a Disputed agreement fails for every caller, the agent
\* included; the status stays Disputed and no funds leave the instance.
C11_SettleOnDisputedFails ==
    (last.op = "settle" /\ last.pre.status = Disputed)
        => /\ ~last.ok
           /\ escrows[last.esc].status = Disputed
           /\ escrows[last.esc].balance = last.pre.balance
           /\ LastCallChangedNothing

\* C11 witness: the agent called settle() on a Disputed agreement that held
\* its full amount.
C11_Witness ==
    /\ last.op = "settle"
    /\ last.pre.status = Disputed
    /\ last.caller = Agent
    /\ last.pre.balance >= last.pre.amount

\* C12: a value transfer to the instance from anyone but the depositor, or
\* of a value other than amount, is rejected; status and balance stay as
\* they were and the sender keeps the value.
C12_WrongTransferRejected ==
    (last.op = "fund" /\ (last.caller # last.pre.payer \/ last.value # last.pre.amount))
        => /\ ~last.ok
           /\ escrows[last.esc].status = last.pre.status
           /\ escrows[last.esc].balance = last.pre.balance
           /\ LastCallChangedNothing

\* C12 witness: the depositor sent a non-zero value other than amount.
C12_Witness ==
    /\ last.op = "fund"
    /\ last.caller = last.pre.payer
    /\ last.value # last.pre.amount
    /\ last.value > 0

\* C13: initiateDispute succeeds exactly when the caller is the depositor or
\* the beneficiary and the status is not Settled, and then the status is
\* Disputed; otherwise it fails and changes nothing.
C13_DisputeByParticipantOnly ==
    last.op = "initiateDispute" =>
        /\ last.ok <=> (/\ last.caller \in {last.pre.payer, last.pre.payee}
                        /\ last.pre.status # Settled)
        /\ last.ok => /\ escrows[last.esc].status = Disputed
                      /\ escrows[last.esc].balance = last.pre.balance
        /\ ~last.ok => LastCallChangedNothing

\* C13 witness: an outsider's initiateDispute failed on a Funded agreement.
C13_Witness ==
    /\ last.op = "initiateDispute"
    /\ last.pre.status = Escrowed
    /\ last.caller \notin {last.pre.payer, last.pre.payee}
    /\ ~last.ok

\* C14: settle() is all-or-nothing: when the disbursement to the beneficiary
\* or the one to the fee address fails on a Funded agreement, the call fails,
\* the status stays Funded, settledAt stays zero and no recipient keeps funds.
C14_SettleAllOrNothing ==
    (last.op = "settle" /\ last.pre.status = Escrowed /\ last.failedAt # "none")
        => /\ ~last.ok
           /\ escrows[last.esc].status = Escrowed
           /\ escrows[last.esc].settledAt = last.pre.settledAt
           /\ LastCallChangedNothing

\* C14 witness: on a Funded agreement holding its amount, the beneficiary
\* was paid and the fee address then refused its transfer.
C14_Witness ==
    /\ last.op = "settle"
    /\ last.pre.status = Escrowed
    /\ last.pre.balance >= last.pre.amount
    /\ last.pre.settledAt = 0
    /\ last.failedAt = "fee"

\* C15: a settle() call made from inside a disbursement callback of a
\* settle() in progress on the same agreement is rejected: the nested call
\* disburses nothing, so one settle() pays out amount once.
C15_NestedSettleRejected ==
    (last.op = "settle" /\ last.nested # "none")
        => /\ last.nested # "disbursed"
           /\ last.toPayee + last.toFee <= last.pre.amount

\* C15 witness: the beneficiary, which is also the depositor and the agent,
\* re-funded the agreement from its callback (status back to Funded, lock
\* held) and called settle() again; the nested call was rejected.
C15_Witness ==
    /\ last.op = "settle"
    /\ last.ok
    /\ last.nested = "rejectedAfterFunding"
    /\ last.pre.payee = last.pre.authorizedAgent
    /\ escrows[last.esc].status = Escrowed
    /\ escrows[last.esc].balance >= last.pre.amount

\* The registry and the counters are what they were before the last call.
RegistryAsBefore ==
    /\ deployedEscrows = last.preDeployed
    /\ totalAgreements = last.preTotal
    /\ totalVolume = last.preVolume

\* C16: createAgreement fails and changes nothing (no instance, registry and
\* counters unchanged, no fee forwarded, the caller keeps its value) when the
\* beneficiary is zero, amount is 0, the attached value is below creationFee
\* or attached value - creationFee differs from the declared amount.
C16_InvalidCreateChangesNothing ==
    (/\ last.op = "createEscrow"
     /\ \/ last.argPayee = Zero
        \/ last.argAmount = 0
        \/ last.value < last.preCreationFee
        \/ last.value - last.preCreationFee # last.argAmount)
    => /\ ~last.ok
       /\ ~escrows[last.esc].exists
       /\ RegistryAsBefore
       /\ LastCallChangedNothing

\* C16 witness: a creation whose attached value exceeds amount + creationFee
\* and is otherwise valid.
C16_Witness ==
    /\ last.op = "createEscrow"
    /\ last.argPayee # Zero
    /\ last.argAmount > x402payFeeAmount
    /\ last.argType <= MaxFactoryConditionType
    /\ last.value > last.argAmount + last.preCreationFee

\* C17: the argument checks of createAgreement pass for every conditionType
\* in 0..4 and fail for every larger one (the other arguments being valid).
C17_FactoryAcceptsFiveTypes ==
    (/\ last.op = "createEscrow"
     /\ last.argPayee # Zero
     /\ last.argAmount > x402payFeeAmount
     /\ last.value = last.argAmount + last.preCreationFee)
    => (CreateArgsOK(last.argPayee, last.argAmount, last.argType, last.value)
            <=> last.argType \in 0 .. MaxConditionType)

C19_FeeBelowAmount ==
    /\ \A e \in EscrowIds :
        escrows[e].exists => escrows[e].feeAmount < escrows[e].amount
    /\ (last.op = "deploy" /\ last.argAmount <= x402payFeeAmount)
        => (~last.ok /\ ~escrows[last.esc].exists)

\* C19 witness: an agreement whose amount is the smallest the constructor
\* accepts has been funded and settled.
C19_Witness ==
    \E e \in EscrowIds :
        /\ escrows[e].exists
        /\ escrows[e].amount = escrows[e].feeAmount + 1
        /\ escrows[e].status = Settled

\* C20: every created agreement has depositor # beneficiary, both non-zero.
C20_DepositorIsNotBeneficiary ==
    \A e \in EscrowIds :
        escrows[e].exists =>
            /\ escrows[e].payer # Zero
            /\ escrows[e].payee # Zero
            /\ escrows[e].payer # escrows[e].payee

\* C27: solvency: whenever an agreement is Funded its instance holds at least
\* amount, so a settle() by the agent can pay both recipients.
C27_FundedIsSolvent ==
    \A e \in EscrowIds :
        (escrows[e].exists /\ escrows[e].status = Escrowed)
            => /\ escrows[e].balance >= escrows[e].amount
               /\ SettleOK(escrows[e], Agent, TRUE, TRUE)

\* C27 witness: an agreement that was settled and then funded again is
\* Funded and holds its amount.
C27_Witness ==
    \E e \in EscrowIds :
        /\ escrows[e].exists
        /\ escrows[e].status = Escrowed
        /\ escrows[e].settledAt # 0
        /\ escrows[e].balance = escrows[e].amount

\* C28: over the lifetime of an agreement settle() succeeds at most once: a
\* settle() that succeeds finds an agreement that was never settled before
\* (settledAt = 0), so the beneficiary is paid amount - protocolFee once.
C28_SettlesAtMostOnce ==
    (last.op = "settle" /\ last.ok) => last.pre.settledAt = 0

\* C29: when settle() returns successfully the status is Settled and
\* settledAt is the time of the call, whatever the recipients' callbacks did.
C29_SettledOnReturn ==
    (last.op = "settle" /\ last.ok)
        => /\ escrows[last.esc].status = Settled
           /\ escrows[last.esc].settledAt = last.at

\* C30: the instance's balance is 0 when the status is Created or Settled
\* and exactly amount when it is Funded.
C30_ExactCustody ==
    \A e \in EscrowIds :
        escrows[e].exists =>
            /\ escrows[e].status \in {Pending, Settled} => escrows[e].balance = 0
            /\ escrows[e].status = Escrowed
                    => escrows[e].balance = escrows[e].amount

\* C21: when the submitter's re-read finds the agreement no longer Funded it
\* stops without simulating or submitting and without raising an error.
C21_StaleRereadIsNoOp ==
    \A c \in Cycles, e \in EscrowIds :
        /\ cyc[c].err[e] # "notFunded"
        /\ (cyc[c].sim[e] = "none" /\ e \in cyc[c].handed) => e \notin cyc[c].subm

\* C22: when the dry run of settle() fails, no transaction is submitted, the
\* ledger, the pending transactions and the agent's records are left as they
\* were, and an agreement that is still Funded is handed to settlement again
\* by the next reading of it.
C22_FailedSimulationSubmitsNothing ==
    [][\A c \in Cycles, e \in EscrowIds :
        /\ cyc'[c].sim[e] = "failed" => e \notin cyc'[c].subm
        /\ (cyc[c].sim[e] # "failed" /\ cyc'[c].sim[e] = "failed")
            => /\ escrows' = escrows
               /\ pending' = pending
               /\ cache' = cache
               /\ (escrows[e].status = Escrowed /\ validateEscrowDetails(escrows[e], now))
                    => ProcessOutcome(escrows'[e], cache'[e], now') = "handoff"]_vars

\* C22 witness: a cycle ended after the dry run for agreement 2 failed; the
\* agreement is still Funded, nothing is pending, and the next cycle's
\* reading of it hands it to settlement again.
C22_Witness ==
    /\ cyc[1].pc = "idle"
    /\ cyc[1].sim[2] = "failed"
    /\ cyc[1].err[2] = "simulation"
    /\ escrows[2].status = Escrowed
    /\ pending = {}
    /\ ProcessOutcome(escrows[2], cache[2], now) = "handoff"

\* C23: a confirmation timeout does not stop the engine: the cycle goes on
\* through its list, and a settle transaction is submitted only by a cycle
\* whose own re-read found the agreement Funded.
C23_TimeoutIsRetryable ==
    [][\A c \in Cycles :
        /\ (cyc'[c].pc = "idle" /\ \E e \in EscrowIds : cyc'[c].err[e] = "timeout")
            => cyc'[c].visited = Listed(cyc'[c])
        /\ (cyc[c].pc = "reread" /\ cyc'[c].pc = "simulate")
            => escrows[Current(cyc[c])].status = Escrowed
        /\ \A e \in EscrowIds :
            (e \in cyc'[c].subm /\ e \notin cyc[c].subm)
                => (cyc[c].pc = "prepare" /\ cyc[c].sim[e] = "ok")]_vars

\* C23 witness: the transaction of an earlier cycle timed out and is still
\* in flight; the agreement is still Funded and the current cycle, after its
\* own re-read, has submitted another one.
C23_Witness ==
    \E e \in EscrowIds :
        /\ [esc |-> e, owner |-> 0] \in pending
        /\ [esc |-> e, owner |-> 1] \in pending
        /\ cyc[1].err[e] = "none"
        /\ e \in cyc[1].subm
        /\ escrows[e].status = Escrowed

\* C24: at most one monitoring cycle is in progress at any time.
C24_CyclesNeverOverlap ==
    \A c1 \in Cycles, c2 \in Cycles :
        (InProgress(c1) /\ InProgress(c2)) => c1 = c2

\* C25: a cycle hands an agreement to the submitter only when its own reading
\* found the status Funded and the evaluator returned satisfied; anything
\* simulated or submitted in a cycle was handed over in that cycle.
C25_HandoffOnlyWhenFundedAndSatisfied ==
    [][\A c \in Cycles, e \in EscrowIds :
        /\ (e \in cyc'[c].handed /\ e \notin cyc[c].handed)
            => /\ escrows[e].status = Escrowed
               /\ ConditionHolds(e)
        /\ e \in cyc'[c].subm => e \in cyc'[c].handed
        /\ cyc'[c].sim[e] # "none" => e \in cyc'[c].handed
        /\ cyc'[c].err[e] # "none" => e \in cyc'[c].handed]_vars

\* C25 witness: in one finished cycle agreement 1, Disputed with its
\* condition triggered, was read and not handed over, and agreement 2 was
\* handed over and submitted.
C25_Witness ==
    /\ cyc[1].pc = "idle"
    /\ cyc[1].visited = {1, 2}
    /\ cyc[1].threw = {}
    /\ 1 \notin cyc[1].handed
    /\ escrows[1].status = Disputed
    /\ cache[1].flag
    /\ 2 \in cyc[1].subm

\* C26: the gas price attached to a submitted settle transaction is the
\* smaller of the network's price and the ceiling, so the price never exceeds
\* the ceiling and the cost never exceeds ceiling x gas limit; nothing is
\* submitted when the buffered gas limit exceeds 10,000,000.
C26_GasPriceCapped ==
    LET buffered == (gas.gasEstimate * 12) \div 10
        least == IF gas.gasPrice < maxGasPrice THEN gas.gasPrice ELSE maxGasPrice
    IN /\ gas.state = "sent" =>
            /\ gas.txParams.gasPrice = least
            /\ gas.txParams.gasPrice <= maxGasPrice
            /\ gas.txParams.gasLimit = buffered
            /\ gas.txParams.gasLimit * gas.txParams.gasPrice
                    <= maxGasPrice * gas.txParams.gasLimit
       /\ (gas.state # "none" /\ buffered > 10000000) => gas.state = "error"

\* C26 witness: the network asked for more than the ceiling and the
\* transaction was sent with the ceiling, at the largest gas limit allowed.
C26_Witness ==
    /\ gas.state = "sent"
    /\ gas.gasPrice > maxGasPrice
    /\ gas.txParams.gasPrice = maxGasPrice
    /\ gas.txParams.gasLimit = MaxGasLimit
====
